---- MODULE Spec2Model ----
(***************************************************************************)
(* Model of Source.cpp: main() loads a dense cost matrix from a text       *)
(* stream, reads a source vertex, and dijkstra() fills the global dist and *)
(* previous_node vectors using a std::set<int, ltDist> as frontier.        *)
(***************************************************************************)
EXTENDS Integers, Sequences, FiniteSets

(* ------------------------------ bounds -------------------------------- *)

\* Largest node count a graph file of the model declares.
MaxNodes == 3

\* Largest number of real edges (entries other than -1) of a loaded matrix.
MaxEdges == 3

(* ------------------------- program constants -------------------------- *)

INT_MAX == 2147483647

max_nodes == 128

\* The value of INT_MAX + 1 after two's complement wrap-around.
INT_MIN == (-INT_MAX) - 1

\* 2^30: two of them add up to INT_MAX + 1.
BigCost == (INT_MAX - 1) \div 2 + 1

\* Edge costs a graph file of the model holds besides -1: a small cost, whose
\* sums tie and differ, and a large one, whose sums pass INT_MAX. (Cost 0
\* comes from the entries a short file leaves unread.)
RealCosts == {1, BigCost}

\* First numbers of the graph files of the model: 0 and max_nodes are the
\* two values the sanity check of main() refuses.
NodeInputs == (0..MaxNodes) \cup {max_nodes}

VARIABLES
    pc,               \* position of main(): "start", "ask", "init", "loop", "relax", "done", "exit"
    number_of_nodes,  \* global int
    graph,            \* global vector<int>, index 0..size-1
    dist,             \* global vector<int>
    previous_node,    \* global vector<int>
    q,                \* std::set<int, ltDist> of dijkstra(), in iteration order
    s,                \* parameter of dijkstra() (src of main() after the range test)
    u,                \* vertex taken from the front of q
    v,                \* inner loop index of dijkstra()
    nread,            \* history: number of matrix values extracted from the stream
    warned,           \* output: "Using 0 as source node." was written to cerr
    removed,          \* history: vertices erased from the front of q so far
    pops,             \* history: number of erasures from the front of q
    exams             \* history: number of GraphGet(u, v) != -1 tests made

vars == <<pc, number_of_nodes, graph, dist, previous_node, q, s, u, v,
          nread, warned, removed, pops, exams>>

(* ---------------------------- graph store ----------------------------- *)

\* Lines 215-217, vector<int>::resize(n) on an empty vector: n
\* value-initialized ints.
Resize(n) == [i \in 0..(n - 1) |-> 0]

\* GraphGet with row and column exchanged (a faulty variant).
GraphGetTransposed(g, n, a, b) == g[n * b + a]

\* Lines 67-70: entry (a, b) of the n x n matrix g.
GraphGet(g, n, a, b) == g[n * a + b]

\* Lines 105-108: GraphSet(i, c), the overload that fills slot i.
GraphSet(g, i, c) == [g EXCEPT ![i] = c]

(* ------------------------------ loader -------------------------------- *)

\* Whether in.eof() holds at the top of iteration i of the read loop: the
\* extraction of the last number sets eofbit when nothing follows it, and a
\* failed extraction (only white space was left) sets it as well.
StreamEof(i, toks, trail) ==
    \/ i = Len(toks) /\ ~trail
    \/ i > Len(toks)

\* Values of v after the "in >> v" that finds only white space before the
\* end of the stream: the extraction stores nothing, so v keeps the last
\* number read, and is uninitialized (any int) when none was read.
FailValues(toks) ==
    IF Len(toks) > 0 THEN {toks[Len(toks)]} ELSE RealCosts \cup {-1, 0}

\* The read loop of main(): for (i = 0; i < k; i++) { if eof break; in >> v;
\* GraphSet(i, v); } on stream toks; fv is the value of v after the failed
\* extraction.
RECURSIVE ReadLoop(_, _, _, _, _, _)
ReadLoop(g, i, k, toks, trail, fv) ==
    IF i >= k THEN g
    ELSE IF StreamEof(i, toks, trail) THEN g
    ELSE IF i < Len(toks)
         THEN ReadLoop(GraphSet(g, i, toks[i + 1]), i + 1, k, toks, trail, fv)
         ELSE ReadLoop(GraphSet(g, i, fv), i + 1, k, toks, trail, fv)

\* Number of matrix values the stream gave: the extractions that succeeded.
ValuesRead(k, toks) == IF Len(toks) < k THEN Len(toks) ELSE k

RealEdges(g) == {i \in DOMAIN g : g[i] # -1}

\* Streams of the model for an n-node file: len numbers, real costs at the
\* positions of some set of at most MaxEdges positions, -1 elsewhere. (A
\* shorter stream leaves more than MaxEdges entries at the 0 of resize.)
StreamLengths(n) ==
    {len \in 0..(n * n) : len + MaxEdges + 1 >= n * n}

EdgePositions(len) ==
    {E \in SUBSET (0..(len - 1)) : Cardinality(E) <= MaxEdges}

Stream(len, E, c) == [i \in 1..len |-> IF (i - 1) \in E THEN c[i - 1] ELSE -1]

\* main(), lines 204-231: open the file, read number_of_nodes, refuse it
\* unless 0 < n < max_nodes, resize the three vectors and read the matrix.
Load ==
    /\ pc = "start"
    /\ \E n \in NodeInputs :
        /\ number_of_nodes' = n
        /\ IF n > 0 /\ n < max_nodes
           THEN \E len \in StreamLengths(n) :
                \E E \in EdgePositions(len) :
                \E c \in [E -> RealCosts] :
                \E trail \in BOOLEAN :
                \E fv \in FailValues(Stream(len, E, c)) :
                    LET toks == Stream(len, E, c)
                        g == ReadLoop(Resize(n * n), 0, n * n, toks, trail, fv)
                    IN  /\ Cardinality(RealEdges(g)) <= MaxEdges
                        /\ graph' = g
                        /\ dist' = Resize(n)
                        /\ previous_node' = Resize(n)
                        /\ nread' = ValuesRead(n * n, toks)
                        /\ pc' = "ask"
           ELSE /\ pc' = "exit"
                /\ UNCHANGED <<graph, dist, previous_node, nread>>
    /\ UNCHANGED <<q, s, u, v, warned, removed, pops, exams>>

\* main(), lines 233-241: read src; a number outside [0, n) becomes 0.
SourceInputs(n) == (-1)..n

ReadSource ==
    /\ pc = "ask"
    /\ \E src \in SourceInputs(number_of_nodes) :
        /\ warned' = (src < 0 \/ src >= number_of_nodes)
        /\ s' = IF src < 0 \/ src >= number_of_nodes THEN 0 ELSE src
    /\ pc' = "init"
    /\ UNCHANGED <<number_of_nodes, graph, dist, previous_node, q, u, v,
                   nread, removed, pops, exams>>

(* ----------------------- the frontier: set<int, ltDist> --------------- *)

\* ltDist with equal distances ordered by decreasing vertex number (a faulty
\* variant).
ltDistTieReversed(d, a, b) == d[a] < d[b] \/ (d[a] = d[b] /\ a > b)

\* ltDist::operator(): make_pair(dist[a], a) < make_pair(dist[b], b).
ltDist(d, a, b) == d[a] < d[b] \/ (d[a] = d[b] /\ a < b)

\* set::lower_bound: the first position whose element is not less than x,
\* Len + 1 when there is none.
LowerBound(qq, d, x) ==
    IF \E i \in 1..Len(qq) : ~ltDist(d, qq[i], x)
    THEN CHOOSE i \in 1..Len(qq) :
            /\ ~ltDist(d, qq[i], x)
            /\ \A j \in 1..(i - 1) : ltDist(d, qq[j], x)
    ELSE Len(qq) + 1

\* set::count(x): 1 when the element at the lower bound is equivalent to x.
SetCount(qq, d, x) ==
    LET i == LowerBound(qq, d, x)
    IN  IF i <= Len(qq) /\ ~ltDist(d, x, qq[i]) THEN 1 ELSE 0

\* set::erase(x): removes the element equivalent to x, if any.
SetErase(qq, d, x) ==
    LET i == LowerBound(qq, d, x)
    IN  IF i <= Len(qq) /\ ~ltDist(d, x, qq[i])
        THEN SubSeq(qq, 1, i - 1) \o SubSeq(qq, i + 1, Len(qq))
        ELSE qq

\* set::insert(x): no effect when an equivalent element is present.
SetInsert(qq, d, x) ==
    LET i == LowerBound(qq, d, x)
    IN  IF i <= Len(qq) /\ ~ltDist(d, x, qq[i])
        THEN qq
        ELSE SubSeq(qq, 1, i - 1) \o <<x>> \o SubSeq(qq, i, Len(qq))

(* ------------------------------ dijkstra ------------------------------ *)

\* Values "int newDist = a + c" may have for c >= 0. A sum above INT_MAX is a
\* signed overflow, which is undefined: the build either wraps it around
\* (a + c - 2^32 = INT_MIN + (a + c - 2^31)) or keeps the sum exact in a
\* wider register, where it is not below any int, as INT_MAX is not.
IntAdd(a, c) ==
    IF a > 0 /\ c > INT_MAX - a
    THEN {INT_MIN + ((a - INT_MAX - 1) + c), INT_MAX}
    ELSE {a + c}

\* Lines 180-193: q.count(v) and q.erase(v) under the old dist, then the
\* assignment of dist[v], then q.insert(v) under the new dist.
Upsert(qq, d, x, nd) ==
    LET q1 == IF SetCount(qq, d, x) # 0 THEN SetErase(qq, d, x) ELSE qq
    IN  SetInsert(q1, [d EXCEPT ![x] = nd], x)

\* DijkstraInit without the assignment dist[s] = 0 (a faulty variant).
DijkstraInitSourceNotZeroed ==
    /\ pc = "init"
    /\ dist' = [i \in 0..(number_of_nodes - 1) |-> INT_MAX]
    /\ previous_node' = [i \in 0..(number_of_nodes - 1) |-> -1]
    /\ q' = <<s>>
    /\ removed' = {}
    /\ pops' = 0
    /\ exams' = 0
    /\ pc' = "loop"
    /\ UNCHANGED <<number_of_nodes, graph, s, u, v, nread, warned>>

\* Lines 133-147: every dist becomes INT_MAX, every previous_node -1, then
\* dist[s] = 0 and q = {s}.
DijkstraInit ==
    /\ pc = "init"
    /\ dist' = [[i \in 0..(number_of_nodes - 1) |-> INT_MAX] EXCEPT ![s] = 0]
    /\ previous_node' = [i \in 0..(number_of_nodes - 1) |-> -1]
    /\ q' = <<s>>
    /\ removed' = {}
    /\ pops' = 0
    /\ exams' = 0
    /\ pc' = "loop"
    /\ UNCHANGED <<number_of_nodes, graph, s, u, v, nread, warned>>

\* Lines 151-157: the loop test, u = *q.begin(), q.erase(q.begin()), v = 0.
Pop ==
    /\ pc = "loop"
    /\ q # <<>>
    /\ u' = Head(q)
    /\ q' = Tail(q)
    /\ v' = 0
    /\ removed' = removed \cup {Head(q)}
    /\ pops' = pops + 1
    /\ pc' = "relax"
    /\ UNCHANGED <<number_of_nodes, graph, dist, previous_node, s, nread,
                   warned, exams>>

\* Lines 159-196: one iteration of the inner loop, with its v++ and test.
\* (Without an edge no newDist is computed: the INT_MAX stands for none.)
Relax ==
    /\ pc = "relax"
    /\ LET c == GraphGet(graph, number_of_nodes, u, v)
       IN  \E newDist \in (IF c # -1 THEN IntAdd(dist[u], c) ELSE {INT_MAX}) :
             IF c # -1 /\ newDist < dist[v]
             THEN /\ q' = Upsert(q, dist, v, newDist)
                  /\ dist' = [dist EXCEPT ![v] = newDist]
                  /\ previous_node' = [previous_node EXCEPT ![v] = u]
             ELSE UNCHANGED <<q, dist, previous_node>>
    /\ v' = v + 1
    /\ exams' = exams + 1
    /\ pc' = IF v + 1 < number_of_nodes THEN "relax" ELSE "loop"
    /\ UNCHANGED <<number_of_nodes, graph, s, u, nread, warned, removed, pops>>

\* Line 151 with q empty: dijkstra() returns to main().
Return ==
    /\ pc = "loop"
    /\ q = <<>>
    /\ pc' = "done"
    /\ UNCHANGED <<number_of_nodes, graph, dist, previous_node, q, s, u, v,
                   nread, warned, removed, pops, exams>>

(* --------------------------- specification ---------------------------- *)

\* Before main() runs: the globals are zero-initialized, the vectors empty.
Init ==
    /\ pc = "start"
    /\ number_of_nodes = 0
    /\ graph = Resize(0)
    /\ dist = Resize(0)
    /\ previous_node = Resize(0)
    /\ q = <<>>
    /\ s = 0
    /\ u = 0
    /\ v = 0
    /\ nread = 0
    /\ warned = FALSE
    /\ removed = {}
    /\ pops = 0
    /\ exams = 0

Next ==
    \/ Load
    \/ ReadSource
    \/ DijkstraInit
    \/ Pop
    \/ Relax
    \/ Return

Spec == Init /\ [][Next]_vars

(* ------------------- graph notions used by the claims ----------------- *)

Nodes == 0..(number_of_nodes - 1)

\* Entry (a, b) of the cost matrix, row-major.
EdgeCost(a, b) == graph[number_of_nodes * a + b]

IsEdge(a, b) == EdgeCost(a, b) # -1

NonNegativeCosts == \A a, b \in Nodes : IsEdge(a, b) => EdgeCost(a, b) >= 0

\* Path costs as mathematical integers: a value in 0..INT_MAX is exact,
\* Over stands for every cost above INT_MAX, NoPath for "no path".
Over == (-2)

NoPath == (-1)

PlusCost(d, c) ==
    IF d = NoPath THEN NoPath
    ELSE IF d = Over THEN Over
    ELSE IF c > INT_MAX - d THEN Over
    ELSE d + c

\* d1 <= d2 in the order exact < Over < NoPath.
CostLeq(d1, d2) ==
    \/ d2 = NoPath
    \/ d2 = Over /\ d1 # NoPath
    \/ d1 >= 0 /\ d2 >= 0 /\ d1 <= d2

MinCost(S) == CHOOSE d \in S : \A e \in S : CostLeq(d, e)

MaxCost(S) == CHOOSE d \in S : \A e \in S : CostLeq(e, d)

\* From D, the minimum cost of the directed paths from s of at most k edges
\* to each vertex, the same for k + 1 edges.
ExtendPaths(D) ==
    [x \in Nodes |->
        MinCost({D[x]} \cup
                {PlusCost(D[w], EdgeCost(w, x)) : w \in {y \in Nodes : IsEdge(y, x)}})]

\* Minimum cost over the directed paths from s of at most k edges (D ranges
\* over one table, so that the table is computed once).
RECURSIVE MinPath(_)
MinPath(k) ==
    IF k = 0
    THEN [x \in Nodes |-> IF x = s THEN 0 ELSE NoPath]
    ELSE CHOOSE R \in {ExtendPaths(D) : D \in {MinPath(k - 1)}} : TRUE

\* The true shortest-path cost from s to every vertex.
TrueDist == MinPath(number_of_nodes - 1)

Reachable(x) == TrueDist[x] # NoPath

\* From D, the maximum cost of the directed walks from s of k edges to each
\* vertex, the same for k + 1 edges.
ExtendWalks(D) ==
    [x \in Nodes |->
        LET C == {PlusCost(D[w], EdgeCost(w, x)) :
                    w \in {y \in Nodes : IsEdge(y, x) /\ D[y] # NoPath}}
        IN  IF C = {} THEN NoPath ELSE MaxCost(C)]

\* Every walk counted in D, and every extension of one by up to k edges,
\* costs less than INT_MAX.
RECURSIVE WalksBelowMax(_, _)
WalksBelowMax(D, k) ==
    /\ \A x \in Nodes : D[x] = NoPath \/ (D[x] >= 0 /\ D[x] < INT_MAX)
    /\ k > 0 => \A E \in {ExtendWalks(D)} : WalksBelowMax(E, k - 1)

\* Every sum of edge costs along a directed path from s (of at most
\* number_of_nodes edges, the paths dijkstra() extends by one edge included)
\* stays below INT_MAX.
PathSumsBelowMax ==
    WalksBelowMax([x \in Nodes |-> IF x = s THEN 0 ELSE NoPath], number_of_nodes)

\* Cost of the chain x, previous_node[x], ... back to s: Broken when it
\* leaves the vertices, steps along a non-edge, revisits a vertex, or has
\* not reached s after k steps.
Broken == (-3)

RECURSIVE ChainCost(_, _, _)
ChainCost(x, k, seen) ==
    IF x = s THEN 0
    ELSE IF k = 0 THEN Broken
    ELSE LET p == previous_node[x]
         IN  IF p \notin Nodes \/ p \in seen \/ p = x THEN Broken
             ELSE IF ~IsEdge(p, x) THEN Broken
             ELSE LET r == ChainCost(p, k - 1, seen \cup {x})
                  IN  IF r = Broken THEN Broken ELSE PlusCost(r, EdgeCost(p, x))

InDijkstra == pc \in {"loop", "relax"}

Terminated == pc = "done"

(* ------------------------------- claims ------------------------------- *)

\* C1: when dijkstra(s) has terminated on a graph with non-negative costs,
\* dist[x] is the minimum total cost over the directed paths from s to x,
\* and INT_MAX when there is no such path.
C1_ShortestDistances ==
    (Terminated /\ NonNegativeCosts) =>
        \A x \in Nodes :
            IF TrueDist[x] = NoPath
            THEN dist[x] = INT_MAX
            ELSE TrueDist[x] # Over /\ dist[x] = TrueDist[x]

\* C2: when dijkstra(s) has terminated on a graph with non-negative costs,
\* from every x # s with dist[x] < INT_MAX the previous_node chain reaches s
\* within number_of_nodes steps without revisiting a vertex, along real
\* edges only, and the costs of these edges add up to dist[x].
C2_PredecessorChain ==
    (Terminated /\ NonNegativeCosts) =>
        \A x \in Nodes \ {s} :
            dist[x] < INT_MAX =>
                LET r == ChainCost(x, number_of_nodes, {})
                IN  r >= 0 /\ r = dist[x]

\* C3: when dijkstra(s) has terminated, previous_node[x] is -1 exactly when
\* x is s or x is unreachable from s; unreachable vertices keep dist INT_MAX
\* and every other reachable vertex has a vertex as predecessor.
C3_NoneIffSourceOrUnreachable ==
    Terminated =>
        \A x \in Nodes :
            /\ (previous_node[x] = -1) <=> (x = s \/ ~Reachable(x))
            /\ ~Reachable(x) => dist[x] = INT_MAX
            /\ (x # s /\ Reachable(x)) => previous_node[x] \in Nodes

\* C4: a source number outside [0, number_of_nodes) is refused: the
\* computation does not run and no entry of dist or previous_node changes.
C4_InvalidSourceRejected ==
    warned =>
        /\ ~InDijkstra
        /\ ~Terminated
        /\ dist = Resize(number_of_nodes)
        /\ previous_node = Resize(number_of_nodes)

\* C5: when the stream ends before N*N values were read, every matrix entry
\* that was not read holds -1 when the shortest-path computation starts.
C5_UnreadEntriesNoEdge ==
    pc = "init" => \A i \in DOMAIN graph : i >= nread => graph[i] = -1

\* x <= a + c, the sum taken in the mathematical integers (c >= 0).
LeqSum(x, a, c) ==
    IF a > 0 /\ c > INT_MAX - a THEN TRUE ELSE x <= a + c

\* C6: when dijkstra(s) has terminated on a graph with non-negative costs,
\* every real edge (a, b) of cost c with dist[a] < INT_MAX satisfies
\* dist[b] <= dist[a] + c.
C6_RelaxationInvariant ==
    (Terminated /\ NonNegativeCosts) =>
        \A a, b \in Nodes :
            (IsEdge(a, b) /\ dist[a] < INT_MAX) =>
                LeqSum(dist[b], dist[a], EdgeCost(a, b))

\* Terminated on a graph whose sums stay in range, with one edge that is
\* tight (on a shortest path) and one that is slack (its relaxation lost).
C6_Witness ==
    /\ Terminated
    /\ PathSumsBelowMax
    /\ \E a, b \in Nodes :
        /\ a # b /\ IsEdge(a, b) /\ dist[a] < INT_MAX
        /\ dist[b] = dist[a] + EdgeCost(a, b)
    /\ \E a, b \in Nodes :
        /\ a # b /\ IsEdge(a, b) /\ dist[a] < INT_MAX
        /\ dist[b] < dist[a] + EdgeCost(a, b)

\* C7: on a graph with non-negative costs dijkstra(s) ends with an empty
\* frontier after removing each vertex from the frontier at most once, so
\* that it makes at most number_of_nodes * number_of_nodes edge tests.
C7_EachVertexRemovedOnce ==
    NonNegativeCosts =>
        /\ pops = Cardinality(removed)
        /\ exams <= number_of_nodes * number_of_nodes
        /\ Terminated => q = <<>>

\* C8: on a graph with non-negative costs, once a vertex has been removed
\* from the front of the frontier, no later step writes its dist or its
\* previous_node or inserts it into the frontier again.
C8_FinalizedNeverRewritten ==
    [][NonNegativeCosts =>
        \A x \in removed :
            /\ dist'[x] = dist[x]
            /\ previous_node'[x] = previous_node[x]
            /\ \A i \in 1..Len(q') : q'[i] # x]_vars

\* The key order of the claim, (dist[a], a) < (dist[b], b), on the current dist.
KeyLess(a, b) == dist[a] < dist[b] \/ (dist[a] = dist[b] /\ a < b)

\* C9: the frontier is kept in increasing (dist, vertex) order of the
\* current dist values, and the vertex just removed from it has a smaller
\* key than every member left: no member has a smaller dist, and among equal
\* dist the smaller vertex index went first.
C9_RemovedIsMinimum ==
    /\ InDijkstra =>
        \A i, j \in 1..Len(q) : i < j => KeyLess(q[i], q[j])
    /\ (pc = "relax" /\ v = 0) =>
        \A i \in 1..Len(q) : KeyLess(u, q[i])

\* A vertex has just been removed while a member with the same dist stays.
C9_Witness ==
    /\ pc = "relax"
    /\ v = 0
    /\ \E i \in 1..Len(q) : dist[q[i]] = dist[u] /\ u < q[i]

====
